---- MODULE Spec2Model ----
(***************************************************************************)
(* Authentication core of the NestJS GraphQL authentication API:           *)
(* UsersService (src/users/users.service.ts) over the Prisma User table    *)
(* (schema in README.md), and the four AuthService operations register,    *)
(* login, biometricLogin and addBiometricKey, whose observable behaviour   *)
(* is fixed by auth.service.spec.ts.  Every request is an async handler:   *)
(* each await of a store or bcrypt call is a point where other requests    *)
(* may run, so each awaited store call is one step of the request.         *)
(***************************************************************************)
EXTENDS Integers, Sequences, FiniteSets, Bags, TLC

\* ---------------------------------------------------------------- bounds
MaxInFlight == 2
MaxTime == 1

Emails == {"a@x", "b@x"}
BiometricKeys == {"bio1", "bio2"}
\* The salts bcrypt may draw.  A hash is only ever compared through the salt
\* stored in it, so one value stands for them all.
Salts == {"s1"}

\* A plaintext password, split where bcrypt stops reading it: first72 is its
\* first 72 bytes, rest whatever follows.  Passwords are shorter than that,
\* so nothing follows; "L72" stands for one fixed string of exactly 72
\* bytes, which LongPasswords continue in two ways.
Passwords ==
    { [first72 |-> "pw1", rest |-> ""],
      [first72 |-> "pw2", rest |-> ""] }

LongPasswords ==
    { [first72 |-> "L72", rest |-> "x"],
      [first72 |-> "L72", rest |-> "y"] }

\* ------------------------------------------------------------- constants
BcryptRounds == 10
JwtExpiresIn == 86400
JwtSecret == "test-secret"

Null == <<>>
NoKey == "NULL"
NoArg == [email |-> "", password |-> [first72 |-> "", rest |-> ""],
          biometricKey |-> NoKey, userId |-> 0]

VARIABLES users, plain, now, pending, response

vars == <<users, plain, now, pending, response>>

\* ------------------------------------------------------------------ bcrypt
\* bcrypt reads at most the first 72 bytes of the password.
BcryptInput(password) == password.first72

BcryptDigest(password, salt, rounds) ==
    [alg |-> "2b", rounds |-> rounds, salt |-> salt,
     digest |-> <<salt, rounds, BcryptInput(password)>>]

BcryptHash(password, salt) == BcryptDigest(password, salt, BcryptRounds)

\* compare re-hashes the candidate with the salt and cost stored in the hash.
BcryptCompare(password, hash) ==
    BcryptDigest(password, hash.salt, hash.rounds) = hash

\* --------------------------------------------------------------------- JWT
\* A token signed with no lifetime.
JwtSignExpired(sub, t) ==
    LET payload == [sub |-> sub, iat |-> t, exp |-> t]
    IN  [payload |-> payload, signature |-> <<JwtSecret, payload>>]

\* JwtService.sign with signOptions { expiresIn: '1d' }: iat is the time of
\* signing, exp is iat plus the configured lifetime, in seconds.
JwtSign(sub, t) ==
    LET payload == [sub |-> sub, iat |-> t, exp |-> t + JwtExpiresIn]
    IN  [payload |-> payload, signature |-> <<JwtSecret, payload>>]

JwtDecode(token) == token.payload

\* ---------------------------------------------------------- the User table
\* prisma.user.findUnique, given the rows its where clause matches: a unique
\* column matches at most one row; Null when none does.
FindUnique(us, hits) ==
    IF hits = {} THEN Null ELSE <<us[CHOOSE i \in hits : TRUE]>>

\* Lookups that find nothing, whatever the table holds.
FindByEmailBlind(us, email) == Null

FindByEmail(us, email) ==
    FindUnique(us, {i \in 1..Len(us) : us[i].email = email})

FindById(us, id) == FindUnique(us, {i \in 1..Len(us) : us[i].id = id})

FindByBiometricKeyBlind(us, biometricKey) == Null

\* A lookup that names the wrong column.
FindByBiometricKeyAsEmail(us, biometricKey) ==
    FindUnique(us, {i \in 1..Len(us) : us[i].email = biometricKey})

FindByBiometricKey(us, biometricKey) ==
    FindUnique(us, {i \in 1..Len(us) : us[i].biometricKey = biometricKey})

\* The email column without its unique index.
EmailUniqueOff(us, email) == FALSE

\* email String @unique: no other row may hold the email.

EmailUniqueViolated(us, email) == \E i \in 1..Len(us) : us[i].email = email

\* biometricKey String? @unique: no row other than the updated one may hold
\* the key; NULLs never collide.
BiometricKeyUniqueViolated(us, id, biometricKey) ==
    /\ biometricKey # NoKey
    /\ \E i \in 1..Len(us) : us[i].id # id /\ us[i].biometricKey = biometricKey

PrismaUniqueError == [kind |-> "PrismaClientKnownRequestError", code |-> "P2002"]

\* prisma.user.create({ data: { email, password } }): id @default(uuid()) is
\* fresh and biometricKey is NULL.  createdAt and updatedAt, which Prisma
\* maintains and no operation reads, are left out of the rows.
NewUser(us, email, hashedPassword) ==
    [id |-> Len(us) + 1, email |-> email, password |-> hashedPassword,
     biometricKey |-> NoKey]

\* A faulty insert that leaves the row behind although the write is refused.
PrismaUserCreateDirty(us, email, hashedPassword) ==
    LET u == NewUser(us, email, hashedPassword)
    IN  IF EmailUniqueViolated(us, email)
        THEN [error |-> <<PrismaUniqueError>>, users |-> Append(us, u), user |-> Null]
        ELSE [error |-> Null, users |-> Append(us, u), user |-> <<u>>]

\* A faulty insert written as an upsert: a row that holds the email is
\* overwritten with the new password instead of the write being refused.
PrismaUserCreateUpsert(us, email, hashedPassword) ==
    LET u == NewUser(us, email, hashedPassword)
    IN  IF EmailUniqueViolated(us, email)
        THEN LET i == CHOOSE j \in 1..Len(us) : us[j].email = email
                 v == [us[i] EXCEPT !.password = hashedPassword]
             IN  [error |-> Null, users |-> [us EXCEPT ![i] = v], user |-> <<v>>]
        ELSE [error |-> Null, users |-> Append(us, u), user |-> <<u>>]

PrismaUserCreate(us, email, hashedPassword) ==
    LET u == NewUser(us, email, hashedPassword)
    IN  IF EmailUniqueViolated(us, email)
        THEN [error |-> <<PrismaUniqueError>>, users |-> us, user |-> Null]
        ELSE [error |-> Null, users |-> Append(us, u), user |-> <<u>>]

\* prisma.user.update({ where: { id }, data: { biometricKey } }): the row's
\* key is overwritten whatever it held.
PrismaUserUpdate(us, id, biometricKey) ==
    LET i == CHOOSE j \in 1..Len(us) : us[j].id = id
        u == [us[i] EXCEPT !.biometricKey = biometricKey]
    IN  IF BiometricKeyUniqueViolated(us, id, biometricKey)
        THEN [error |-> <<PrismaUniqueError>>, users |-> us, user |-> Null]
        ELSE [error |-> Null, users |-> [us EXCEPT ![i] = u], user |-> <<u>>]

\* ------------------------------------------------------ what a call returns
Conflict == [kind |-> "ConflictException"]
Unauthorized == [kind |-> "UnauthorizedException"]

\* AuthResponse { token, user }: the user is the store's record as it is.
AuthResponse(user, t) ==
    [kind |-> "ok", token |-> JwtSign(user.id, t), user |-> user]

\* A store error is not caught: the call rejects with it.
StoreOutcome(r, t) == IF r.error # Null THEN r.error[1] ELSE AuthResponse(r.user[1], t)

\* A GraphQL User type that also declares the password field.
GraphQLUserLeaky(user) == user

\* The GraphQL User object type exposes id, email, biometricKey (and the two
\* timestamps): the fields of the response are those it declares.
GraphQLUser(user) == [f \in {"id", "email", "biometricKey"} |-> user[f]]

\* -------------------------------------------------------------------- state
\* users     the User table, in insertion order
\* plain     history only: plain[i] is the plaintext users[i] registered with
\* now       the clock, in seconds
\* pending   the requests waiting for a store write, as a bag: two requests
\*           with the same input are two requests
\* response  the last response sent: the operation, its input, its outcome
NoResponse == [op |-> "none", arg |-> NoArg, outcome |-> [kind |-> "none"]]

Init ==
    /\ users = <<>>
    /\ plain = <<>>
    /\ now = 0
    /\ pending = EmptyBag
    /\ response = NoResponse

\* The handler settles: its outcome is the response.
Settle(operation, input, outcome) ==
    response' = [op |-> operation, arg |-> input, outcome |-> outcome]

\* The handler waits for the store write it goes on to.
Await(label, input) ==
    /\ BagCardinality(pending) < MaxInFlight
    /\ pending' = pending (+) SetToBag({[pc |-> label, arg |-> input]})
    /\ response' = response

\* register({ email, password }): findByEmail, ConflictException when a user
\* holds the email, else on to usersService.create.
Register(email, password) ==
    /\ LET input == [NoArg EXCEPT !.email = email, !.password = password]
           existing == FindByEmail(users, email)
       IN  IF existing # Null
           THEN Settle("register", input, Conflict) /\ pending' = pending
           ELSE Await("create", input)
    /\ UNCHANGED <<users, plain, now>>

\* usersService.create: bcrypt.hash(password, 10), with a salt bcrypt draws
\* itself, then prisma.user.create; register then signs a token for the new
\* user and returns both.  The hash touches nothing shared, so it is taken
\* in the step of the insert it precedes.
Create(req) ==
    /\ req.pc = "create"
    /\ pending' = pending (-) SetToBag({req})
    /\ \E salt \in Salts :
         LET hashedPassword == BcryptHash(req.arg.password, salt)
             r == PrismaUserCreate(users, req.arg.email, hashedPassword)
         IN  /\ users' = r.users
             /\ plain' = IF Len(r.users) > Len(users)
                         THEN Append(plain, req.arg.password) ELSE plain
             /\ Settle("register", req.arg, StoreOutcome(r, now))
    /\ UNCHANGED now

\* login({ email, password }): findByEmail, UnauthorizedException when no
\* user holds the email; else bcrypt.compare(password, user.password),
\* UnauthorizedException on a mismatch, else a token and the user found.
\* The comparison reads only the row already fetched, so it is taken in the
\* step of the lookup.
Login(email, password) ==
    /\ LET input == [NoArg EXCEPT !.email = email, !.password = password]
           user == FindByEmail(users, email)
       IN  IF user = Null
           THEN Settle("login", input, Unauthorized)
           ELSE IF BcryptCompare(password, user[1].password)
                THEN Settle("login", input, AuthResponse(user[1], now))
                ELSE Settle("login", input, Unauthorized)
    /\ UNCHANGED <<users, plain, now, pending>>

\* biometricLogin({ biometricKey }): findByBiometricKey,
\* UnauthorizedException when no user holds the key, else a token and the
\* user found; no password is asked for.
BiometricLogin(biometricKey) ==
    /\ LET input == [NoArg EXCEPT !.biometricKey = biometricKey]
           user == FindByBiometricKey(users, biometricKey)
       IN  IF user = Null
           THEN Settle("biometricLogin", input, Unauthorized)
           ELSE Settle("biometricLogin", input, AuthResponse(user[1], now))
    /\ UNCHANGED <<users, plain, now, pending>>

\* addBiometricKey(userId, biometricKey), userId being the subject of the
\* caller's verified token, so the id of a user that exists:
\* findByBiometricKey, ConflictException when any user holds the key, else
\* on to usersService.updateBiometricKey.
AddBiometricKey(userId, biometricKey) ==
    /\ FindById(users, userId) # Null
    /\ LET input == [NoArg EXCEPT !.userId = userId, !.biometricKey = biometricKey]
           existing == FindByBiometricKey(users, biometricKey)
       IN  IF existing # Null
           THEN Settle("addBiometricKey", input, Conflict) /\ pending' = pending
           ELSE Await("update", input)
    /\ UNCHANGED <<users, plain, now>>

\* usersService.updateBiometricKey: prisma.user.update; addBiometricKey then
\* signs a fresh token for the updated user and returns both.
UpdateBiometricKey(req) ==
    /\ req.pc = "update"
    /\ pending' = pending (-) SetToBag({req})
    /\ LET r == PrismaUserUpdate(users, req.arg.userId, req.arg.biometricKey)
       IN  /\ users' = r.users
           /\ Settle("addBiometricKey", req.arg, StoreOutcome(r, now))
    /\ UNCHANGED <<plain, now>>

Tick ==
    /\ now < MaxTime
    /\ now' = now + 1
    /\ UNCHANGED <<users, plain, pending, response>>

Requests(passwords) ==
    \/ \E email \in Emails, password \in passwords : Register(email, password)
    \/ \E req \in BagToSet(pending) : Create(req)
    \/ \E email \in Emails, password \in passwords : Login(email, password)
    \/ \E biometricKey \in BiometricKeys : BiometricLogin(biometricKey)
    \/ \E userId \in 1..Cardinality(Emails), biometricKey \in BiometricKeys :
         AddBiometricKey(userId, biometricKey)
    \/ \E req \in BagToSet(pending) : UpdateBiometricKey(req)
    \/ Tick

Next == Requests(Passwords)

Spec == Init /\ [][Next]_vars

\* The same service when clients may also send passwords longer than the 72
\* bytes bcrypt reads.
LongNext == Requests(Passwords \cup LongPasswords)

LongSpec == Init /\ [][LongNext]_vars

\* ------------------------------------------------------------- observations
Holds(us, email) == \E i \in 1..Len(us) : us[i].email = email

HoldersOf(us, biometricKey) ==
    {i \in 1..Len(us) : us[i].biometricKey = biometricKey}

Ok(r) == r.outcome.kind = "ok"

\* A step in which some request went on to its store write, and which one.
Awaits(label, input) ==
    pending' = pending (+) SetToBag({[pc |-> label, arg |-> input]})

\* A step in which a request settled at its lookup, without a store write.
SettledAtLookup(operation) ==
    /\ response' # response
    /\ response'.op = operation
    /\ pending' = pending

\* A step in which a request settled with its store write.
SettledAtWrite(operation) ==
    /\ BagCardinality(pending') < BagCardinality(pending)
    /\ response'.op = operation

\* ------------------------------------------------------------------- claims

\* C1: a register whose email no user holds when it looks up and when it
\* inserts succeeds and creates exactly one user, with that email, which it
\* returns; a register for an email some user holds, whatever its password,
\* fails with Conflict, and never reaches the insert.
C1_RegisterOnceThenConflict ==
    [][ /\ \A email \in Emails, password \in Passwords \cup LongPasswords :
             Awaits("create", [NoArg EXCEPT !.email = email, !.password = password])
                => ~Holds(users, email)
        /\ SettledAtLookup("register")
             => /\ Holds(users, response'.arg.email)
                /\ response'.outcome = Conflict
        /\ (SettledAtWrite("register") /\ ~Holds(users, response'.arg.email))
             => /\ Ok(response')
                /\ Len(users') = Len(users) + 1
                /\ \A i \in 1..Len(users) : users'[i] = users[i]
                /\ users'[Len(users')].email = response'.arg.email
                /\ response'.outcome.user = users'[Len(users')]
                /\ Cardinality({i \in 1..Len(users') :
                                  users'[i].email = response'.arg.email}) = 1
      ]_vars

\* A register for an email already registered, with another password than
\* the holder's, has just been refused.
C1_Witness ==
    /\ response.op = "register"
    /\ response.outcome = Conflict
    /\ \E i \in 1..Len(users) :
         /\ users[i].email = response.arg.email
         /\ plain[i] # response.arg.password

\* C2 (as claimed): a login with an email no user holds fails with
\* Unauthorized; a login with a registered email succeeds, returning that
\* user, when the password is the one registered, and fails with
\* Unauthorized for every other password.
C2_LoginAcceptsOnlyTheRegisteredPassword ==
    [][ (response' # response /\ response'.op = "login")
          => LET holder == FindByEmail(users, response'.arg.email)
             IN  IF holder = Null
                 THEN response'.outcome = Unauthorized
                 ELSE IF response'.arg.password = plain[holder[1].id]
                      THEN Ok(response') /\ response'.outcome.user = holder[1]
                      ELSE response'.outcome = Unauthorized
      ]_vars

\* C3: a biometricLogin with a key no user holds fails with Unauthorized;
\* with a key some user holds it succeeds and returns the one user whose
\* biometricKey is that key.
C3_BiometricLoginByKeyHolder ==
    [][ (response' # response /\ response'.op = "biometricLogin")
          => LET holders == HoldersOf(users, response'.arg.biometricKey)
             IN  IF holders = {}
                 THEN response'.outcome = Unauthorized
                 ELSE /\ Ok(response')
                      /\ \E i \in holders : response'.outcome.user = users[i]
                      /\ response'.outcome.user.biometricKey
                           = response'.arg.biometricKey
                      /\ users' = users
      ]_vars

\* A biometricLogin has just succeeded.
C3_Witness ==
    /\ response.op = "biometricLogin"
    /\ Ok(response)
    /\ response.outcome.user.biometricKey = response.arg.biometricKey

\* C4: an addBiometricKey for a key some user holds, the caller included,
\* fails with Conflict and never reaches the update, and the table is as it
\* was: the key stays with its holder.
C4_HeldKeyIsRefused ==
    [][ /\ \A userId \in 1..Len(users), biometricKey \in BiometricKeys :
             Awaits("update", [NoArg EXCEPT !.userId = userId,
                                            !.biometricKey = biometricKey])
                => HoldersOf(users, biometricKey) = {}
        /\ SettledAtLookup("addBiometricKey")
             => /\ HoldersOf(users, response'.arg.biometricKey) # {}
                /\ response'.outcome = Conflict
                /\ users' = users
      ]_vars

\* A user's second addBiometricKey with the key it already holds has just
\* been refused.
C4_Witness ==
    /\ response.op = "addBiometricKey"
    /\ response.outcome = Conflict
    /\ response.arg.userId \in HoldersOf(users, response.arg.biometricKey)

\* C5: no two users have the same email, and no two users have the same
\* non-null biometricKey.
C5_UniqueEmailAndBiometricKey ==
    \A i, j \in 1..Len(users) :
        i # j => /\ users[i].email # users[j].email
                 /\ users[i].id # users[j].id
                 /\ users[i].biometricKey = NoKey
                      \/ users[i].biometricKey # users[j].biometricKey

\* Two users exist and the store has just refused a write that would have
\* duplicated a unique column.
C5_Witness ==
    /\ Len(users) = 2
    /\ response.outcome = PrismaUniqueError

\* C6 (as claimed): the user of a successful result has no password field.
C6_ResultUserHasNoPassword ==
    Ok(response) => "password" \notin DOMAIN response.outcome.user

\* C6 (amended): the user of a successful result, as the GraphQL response
\* exposes it, has no password field and carries the row's id, email and
\* biometricKey.
C6_GraphQLUserHasNoPassword ==
    Ok(response) =>
        LET user == response.outcome.user
            shown == GraphQLUser(user)
        IN  /\ "password" \notin DOMAIN shown
            /\ shown.id = user.id
            /\ shown.email = user.email
            /\ shown.biometricKey = user.biometricKey

\* A register has just succeeded, and the user it returns carries the hash.
C6_Witness ==
    /\ response.op = "register"
    /\ Ok(response)
    /\ "password" \in DOMAIN response.outcome.user

\* C7: a register or addBiometricKey that fails, at its lookup or at its
\* write, leaves the table as it was; so does one that goes on to its write.
C7_FailureChangesNothing ==
    [][ \A operation \in {"register", "addBiometricKey"} :
          /\ (SettledAtLookup(operation) \/ SettledAtWrite(operation))
               /\ ~Ok(response')
               => users' = users
          /\ BagCardinality(pending') > BagCardinality(pending)
               => users' = users
      ]_vars

\* A register has just failed at its insert, refused by the store.
C7_Witness ==
    /\ response.op = "register"
    /\ response.outcome = PrismaUniqueError
    /\ Holds(users, response.arg.email)

\* C8: the token of a successful result decodes to a subject equal to the id
\* of the user in the same result, was issued no later than now, and expires
\* after it was issued.
C8_TokenSubjectAndExpiry ==
    Ok(response) =>
        LET claims == JwtDecode(response.outcome.token)
        IN  /\ claims.sub = response.outcome.user.id
            /\ claims.iat <= now
            /\ claims.exp > claims.iat
            /\ response.outcome.token.signature = <<JwtSecret, claims>>

\* An addBiometricKey has just succeeded for the second user, after the
\* clock moved.
C8_Witness ==
    /\ response.op = "addBiometricKey"
    /\ Ok(response)
    /\ response.outcome.user.id = 2
    /\ JwtDecode(response.outcome.token).iat > 0

\* C9 (as claimed): a register that found its email free but inserts after
\* a racing register of the same email, and an addBiometricKey that found
\* its key free but updates after another user's racing addBiometricKey of
\* the same key, fail with Conflict.
C9_RaceLoserGetsConflict ==
    [][ /\ (SettledAtWrite("register") /\ Holds(users, response'.arg.email))
             => response'.outcome = Conflict
        /\ (SettledAtWrite("addBiometricKey")
              /\ HoldersOf(users, response'.arg.biometricKey)
                   \ {response'.arg.userId} # {})
             => response'.outcome = Conflict
      ]_vars

====
